---- MODULE Spec2Model ----
(***************************************************************************)
(* wax_compression_shims.c: four buffer-to-buffer entry points that        *)
(* validate their arguments and pass them to liblz4 and zlib.              *)
(*                                                                         *)
(* A state is the caller's view after one call: the arguments it passed,   *)
(* the output buffer and the length cell as the call left them, the return *)
(* code, and a trace of what the wrapped library was asked to do.          *)
(*                                                                         *)
(* size_t is 64 bits wide; a size is kept as two limbs,                    *)
(*     value = hi * 2^31 + lo,   0 <= lo < 2^31,                           *)
(* so that 2^31-1, 2^31, 2^32-1 and 2^32 are all represented exactly.      *)
(***************************************************************************)
EXTENDS Integers, Sequences, FiniteSets, TLC

\* ------------------------------------------------------------------------
\* Bounds of the model
\* ------------------------------------------------------------------------

\* longest input whose bytes are tracked
MaxLen == 2

\* ------------------------------------------------------------------------
\* Sizes
\* ------------------------------------------------------------------------

INT32_MAX == 2147483647

Sz(n) == [hi |-> 0, lo |-> n]

\* (size_t)INT32_MAX
SZ_INT32_MAX == [hi |-> 0, lo |-> INT32_MAX]

\* (size_t)UINT32_MAX = 2^32 - 1 = 1 * 2^31 + (2^31 - 1)
SZ_UINT32_MAX == [hi |-> 1, lo |-> INT32_MAX]

\* a > b on size_t
SzGT(a, b) == (a.hi > b.hi) \/ (a.hi = b.hi /\ a.lo > b.lo)

SzLE(a, b) == ~SzGT(a, b)

Min(a, b) == IF a < b THEN a ELSE b

\* ------------------------------------------------------------------------
\* Buffers
\* ------------------------------------------------------------------------

\* The first Window bytes of an output buffer are tracked; no tracked
\* transform writes beyond them.
Window == MaxLen + 10

\* a byte whose value is not tracked (output produced from untracked input)
Unspec == 255 + 1

\* number of tracked bytes of a buffer of `cap` bytes
Tracked(cap) == IF cap.hi > 0 THEN Window ELSE Min(cap.lo, Window)

\* the caller's output buffer before the call: `cap` bytes of 0xAA
FreshBuf(cap) == [i \in 1..Tracked(cap) |-> 170]

Take(s, n) == SubSeq(s, 1, Min(n, Len(s)))

\* the buffer `buf` after `bytes` were stored at its start
Store(buf, bytes) ==
    [i \in 1..Len(buf) |-> IF i <= Len(bytes) THEN bytes[i] ELSE buf[i]]

UnspecBytes(n) == [i \in 1..Min(n, Window) |-> Unspec]

NullPtr == [kind |-> "null", data |-> << >>]
DataPtr(s) == [kind |-> "data", data |-> s]
\* a buffer too large to track byte by byte
BulkPtr == [kind |-> "bulk", data |-> << >>]

\* ------------------------------------------------------------------------
\* liblz4, as called by the shims
\* ------------------------------------------------------------------------
\* liblz4 and zlib are linked in, not part of the repository.  Each library
\* function is the set of outcomes it can return for its arguments: the one
\* outcome the format dictates where the bytes are tracked (inputs short
\* enough to be emitted as literals, and the streams made of them), and
\* every outcome lz4.h / zlib.h allows where they are not.

\* lz4.h: 0x7E000000
LZ4_MAX_INPUT_SIZE == 2113929216

\* lz4.h LZ4_COMPRESSBOUND: 0 when the size is out of range
LZ4_compressBound(isize) ==
    IF isize > LZ4_MAX_INPUT_SIZE THEN 0 ELSE isize + (isize \div 255) + 16

\* Shortest input for which LZ4 looks for matches (MFLIMIT + 1); anything
\* shorter is emitted as one run of literals.
LZ4_minLength == 13

\* The block LZ4 emits for an input shorter than LZ4_minLength: a token
\* whose high nibble is the literal count, then the literals.
LZ4_literalBlock(data) == << Len(data) * 16 >> \o data

\* LZ4_compress_default(src, dst, srcSize, dstCapacity): the set of outcomes
\* [ret, bytes]: ret is the count written (0: failure), bytes what dst
\* received.
LZ4_compress_default(src, srcSize, dstCapacity) ==
    IF src.kind = "data" /\ srcSize < LZ4_minLength
    THEN LET block == LZ4_literalBlock(Take(src.data, srcSize))
         IN  IF Len(block) <= dstCapacity
             THEN {[bytes |-> block, ret |-> Len(block)]}
             ELSE {[bytes |-> << >>, ret |-> 0]}
    ELSE \* untracked input: whatever lz4.h allows (0, or 1..dstCapacity)
         {[bytes |-> << >>, ret |-> 0]} \cup
         {[bytes |-> UnspecBytes(n), ret |-> n] :
            n \in {k \in {1, LZ4_compressBound(srcSize)} : k <= dstCapacity}}

\* LZ4_decompress_safe(src, dst, compressedSize, dstCapacity): the set of
\* outcomes [ret, bytes]: ret is the count decoded, negative on error.
LZ4_decompress_safe(src, compressedSize, dstCapacity) ==
    LET s == Take(src.data, compressedSize)
        anything == {[bytes |-> << >>, ret |-> -1]} \cup
                    {[bytes |-> UnspecBytes(n), ret |-> n] :
                       n \in (0..Min(dstCapacity, Window)) \cup {dstCapacity}}
    IN
    IF src.kind # "data" THEN anything
    ELSE IF dstCapacity = 0
    THEN {[bytes |-> << >>, ret |-> IF Len(s) = 1 /\ s[1] = 0 THEN 0 ELSE -1]}
    ELSE IF Len(s) = 0 THEN {[bytes |-> << >>, ret |-> -1]}
    ELSE LET run == s[1] \div 16 IN
         IF run = 15 THEN anything            \* extended literal length
         ELSE IF 1 + run > Len(s)             \* literals past the input end
         THEN {[bytes |-> << >>, ret |-> -2]}
         ELSE IF 1 + run = Len(s)             \* last literals
         THEN IF run <= dstCapacity
              THEN {[bytes |-> SubSeq(s, 2, Len(s)), ret |-> run]}
              ELSE {[bytes |-> << >>, ret |-> -2]}
         ELSE anything                        \* a match follows

\* ------------------------------------------------------------------------
\* zlib, as called by the shims
\* ------------------------------------------------------------------------

Z_OK == 0
Z_DATA_ERROR == 0 - 3
Z_MEM_ERROR == 0 - 4
Z_BUF_ERROR == 0 - 5

RECURSIVE Pow2(_)
Pow2(n) == IF n = 0 THEN 1 ELSE 2 * Pow2(n - 1)

\* bit i (from 0) of a byte string, least significant bit of each byte first
BitAt(s, i) == (s[(i \div 8) + 1] \div Pow2(i % 8)) % 2

\* the k bits of a Huffman code, most significant first
RECURSIVE CodeBits(_, _)
CodeBits(code, k) ==
    IF k = 0 THEN << >>
    ELSE << (code \div Pow2(k - 1)) % 2 >> \o CodeBits(code % Pow2(k - 1), k - 1)

\* the value of the k-bit Huffman code that starts at bit p of s
RECURSIVE CodeAt(_, _, _)
CodeAt(s, p, k) ==
    IF k = 0 THEN 0 ELSE 2 * CodeAt(s, p, k - 1) + BitAt(s, p + k - 1)

\* fixed Huffman code of a literal (RFC 1951 3.2.6): 8 bits for 0..143,
\* 9 bits for 144..255
FixedLiteral(v) == IF v < 144 THEN CodeBits(48 + v, 8) ELSE CodeBits(256 + v, 9)

RECURSIVE FixedLiterals(_)
FixedLiterals(data) ==
    IF data = << >> THEN << >>
    ELSE FixedLiteral(Head(data)) \o FixedLiterals(Tail(data))

\* bits to bytes, first bit in the least significant place, zero padded
PackBits(bits) ==
    [k \in 1..((Len(bits) + 7) \div 8) |->
        LET B(i) == IF 8 * (k - 1) + i + 1 <= Len(bits)
                    THEN bits[8 * (k - 1) + i + 1] ELSE 0
        IN  B(0) + 2 * B(1) + 4 * B(2) + 8 * B(3) + 16 * B(4) + 32 * B(5)
              + 64 * B(6) + 128 * B(7)]

\* adler32 as its two 16-bit halves [a, b]
RECURSIVE Adler32(_, _)
Adler32(ab, data) ==
    IF data = << >> THEN ab
    ELSE LET a == (ab[1] + Head(data)) % 65521
         IN  Adler32(<< a, (ab[2] + a) % 65521 >>, Tail(data))

\* the four check bytes that end a zlib stream, most significant first
AdlerBytes(data) ==
    LET ab == Adler32(<< 1, 0 >>, data)
    IN  << ab[2] \div 256, ab[2] % 256, ab[1] \div 256, ab[1] % 256 >>

\* Longest input zlib emits as literals of one fixed-Huffman block whatever
\* its bytes: a match needs MIN_MATCH = 3 bytes after an earlier byte.
Deflate_maxLiteralOnly == 3

\* The stream compress2 produces at Z_DEFAULT_COMPRESSION for such an input:
\* header 78 9C, one final fixed block (bits 1, then 1 0) of literals closed
\* by the 7-bit end-of-block code, adler32.
ZStream(data) ==
    << 120, 156 >>
      \o PackBits(<< 1, 1, 0 >> \o FixedLiterals(data) \o CodeBits(0, 7))
      \o AdlerBytes(data)

\* compress2(dest, &destLen, source, sourceLen, level): the set of outcomes
\* [ret, destLen, bytes]; destLen is what *destLen holds on return.
compress2(destLen, source, sourceLen) ==
    IF source.kind = "data" /\ sourceLen.hi = 0
         /\ sourceLen.lo <= Deflate_maxLiteralOnly
    THEN LET stream == ZStream(Take(source.data, sourceLen.lo))
         IN  IF SzLE(Sz(Len(stream)), destLen)
             THEN {[bytes |-> stream, ret |-> Z_OK, destLen |-> Sz(Len(stream))]}
             ELSE {[bytes |-> Take(stream, destLen.lo), ret |-> Z_BUF_ERROR,
                    destLen |-> destLen]}
    ELSE \* untracked input: whatever zlib.h allows
         {[bytes |-> UnspecBytes(Tracked(destLen)), ret |-> Z_BUF_ERROR,
           destLen |-> destLen],
          [bytes |-> << >>, ret |-> Z_MEM_ERROR, destLen |-> destLen]} \cup
         {[bytes |-> UnspecBytes(Tracked(n)), ret |-> Z_OK, destLen |-> n] :
            n \in {k \in {Sz(1), destLen} : SzLE(k, destLen) /\ SzGT(k, Sz(0))}}

\* inflate over one fixed-Huffman block of literals whose code starts at
\* bit p of the deflate data d; `room` is the space left in the output.
\* Result [err, out]: "end" (end of block seen), "input" (data ran out),
\* "output" (no room for a literal), "other" (a code outside this subset).
RECURSIVE InflateFixed(_, _, _, _)
InflateFixed(d, p, out, room) ==
    LET avail == 8 * Len(d) - p
        c7 == CodeAt(d, p, 7)
    IN
    IF avail < 7 THEN [p |-> p, out |-> out, err |-> "input"]
    ELSE IF c7 = 0 THEN [p |-> p + 7, out |-> out, err |-> "end"]
    ELSE IF c7 < 24 THEN [p |-> p, out |-> out, err |-> "other"]
    ELSE IF c7 < 96
    THEN IF avail < 8 THEN [p |-> p, out |-> out, err |-> "input"]
         ELSE IF room = 0 THEN [p |-> p, out |-> out, err |-> "output"]
         ELSE InflateFixed(d, p + 8, Append(out, CodeAt(d, p, 8) - 48), room - 1)
    ELSE IF c7 < 100 THEN [p |-> p, out |-> out, err |-> "other"]
    ELSE IF avail < 9 THEN [p |-> p, out |-> out, err |-> "input"]
         ELSE IF room = 0 THEN [p |-> p, out |-> out, err |-> "output"]
         ELSE InflateFixed(d, p + 9, Append(out, CodeAt(d, p, 9) - 256), room - 1)

\* uncompress(dest, &destLen, source, sourceLen): the set of outcomes
\* [ret, destLen, bytes].  With *destLen = 0 zlib inflates into a one-byte
\* scratch buffer and leaves dest and *destLen alone; zlib before 1.3.2 then
\* reports Z_OK for a stream of exactly one byte, later versions an error.
uncompress(destLen, source, sourceLen) ==
    LET s == Take(source.data, sourceLen.lo)
        d == SubSeq(s, 3, Len(s))
        scratch == (destLen = Sz(0))
        room == IF scratch THEN 1 ELSE IF destLen.hi > 0 THEN Window + 1
                ELSE destLen.lo
        Left(out) == IF scratch THEN Sz(0) ELSE Sz(Len(out))
        Bytes(out) == IF scratch THEN << >> ELSE out
        Fail(errs, out) ==
            {[bytes |-> Bytes(out), ret |-> e, destLen |-> Left(out)] : e \in errs}
        anything ==
            {[bytes |-> UnspecBytes(Tracked(n)), ret |-> e, destLen |-> n] :
               e \in {Z_OK, Z_DATA_ERROR, Z_BUF_ERROR},
               n \in {Sz(k) : k \in 0..Tracked(destLen)} \cup {destLen}}
    IN
    IF source.kind # "data" \/ sourceLen.hi > 0 THEN anything
    ELSE IF Len(s) < 2 THEN Fail({Z_DATA_ERROR, Z_BUF_ERROR}, << >>)
    ELSE IF (s[1] * 256 + s[2]) % 31 # 0 \/ s[1] % 16 # 8 \/ s[1] \div 16 > 7
              \/ (s[2] \div 32) % 2 = 1
    THEN Fail({Z_DATA_ERROR}, << >>)
    ELSE IF Len(d) = 0 THEN Fail({Z_DATA_ERROR, Z_BUF_ERROR}, << >>)
    ELSE IF BitAt(d, 1) = 1 /\ BitAt(d, 2) = 1       \* block type 3
    THEN Fail({Z_DATA_ERROR}, << >>)
    ELSE IF ~(BitAt(d, 0) = 1 /\ BitAt(d, 1) = 1 /\ BitAt(d, 2) = 0)
    THEN anything              \* not one final fixed-Huffman block
    ELSE LET r == InflateFixed(d, 3, << >>, room)
             check == ((r.p + 7) \div 8) + 1       \* index in d of the adler32
         IN  IF r.err = "other" THEN anything
             ELSE IF r.err \in {"input", "output"}
             THEN Fail({Z_DATA_ERROR, Z_BUF_ERROR}, r.out)
             ELSE IF Len(d) < check + 3
             THEN Fail({Z_DATA_ERROR, Z_BUF_ERROR}, r.out)
             ELSE IF SubSeq(d, check, check + 3) # AdlerBytes(r.out)
             THEN Fail(IF scratch /\ Len(r.out) > 0
                       THEN {Z_DATA_ERROR, Z_BUF_ERROR} ELSE {Z_DATA_ERROR}, r.out)
             ELSE IF scratch /\ Len(r.out) > 0
             THEN Fail({Z_OK, Z_BUF_ERROR}, r.out)
             ELSE {[bytes |-> Bytes(r.out), ret |-> Z_OK, destLen |-> Left(r.out)]}

\* ------------------------------------------------------------------------
\* The shims
\* ------------------------------------------------------------------------

\* A pointer to an output buffer is [null, buf], buf being the tracked bytes;
\* a pointer to a size_t is [null, val].  A call yields the set of its
\* possible results [rc, dst, len, lib]: the return code, the output buffer
\* and the pointed-to size_t after the call, and what the library was asked.

NoLib == [cap |-> Sz(0), ret |-> 0, destLen |-> Sz(0), calls |-> << >>]

Lib(fns, r, c, n) == [cap |-> c, ret |-> r, destLen |-> n, calls |-> fns]

Result(code, buf, size, trace) ==
    [rc |-> code, dst |-> buf, len |-> size, lib |-> trace]

\* src == NULL || dst == NULL || out_len == NULL
NullArgument(src, dst, len) == src.kind = "null" \/ dst.null \/ len.null

\* src == NULL || dst == NULL
NullBuffer(src, dst) == src.kind = "null" \/ dst.null

\* the fast-codec limit check written against the unsigned limit
FastSizeLimitExceeded_Unsigned(src_len, dst_cap) ==
    SzGT(src_len, SZ_UINT32_MAX) \/ SzGT(dst_cap, SZ_UINT32_MAX)

\* src_len > (size_t)INT32_MAX || dst_cap > (size_t)INT32_MAX
FastSizeLimitExceeded(src_len, dst_cap) ==
    SzGT(src_len, SZ_INT32_MAX) \/ SzGT(dst_cap, SZ_INT32_MAX)

\* the deflate limit check written against the signed limit
DeflateSizeLimitExceeded_Signed(src_len, dst_len) ==
    SzGT(src_len, SZ_INT32_MAX) \/ SzGT(dst_len, SZ_INT32_MAX)

\* src_len > (size_t)UINT32_MAX || *inout_dst_len > (size_t)UINT32_MAX
DeflateSizeLimitExceeded(src_len, dst_len) ==
    SzGT(src_len, SZ_UINT32_MAX) \/ SzGT(dst_len, SZ_UINT32_MAX)

\* the bound check accepting a bound of zero
BoundFailed_NegativeOnly(bound) == bound < 0

\* bound <= 0
BoundFailed(bound) == bound <= 0

\* the capacity check accepting a buffer one byte short of the bound
BoundExceedsCapacity_OffByOne(bound, dst_cap) == SzGT(Sz(bound - 1), dst_cap)

\* (size_t)bound > dst_cap
BoundExceedsCapacity(bound, dst_cap) == SzGT(Sz(bound), dst_cap)

\* the result check taking a count of one for a failure
CompressFailed_Strict(written) == written <= 1

\* written <= 0
CompressFailed(written) == written <= 0

\* the reported length one short of the count
WrittenLength_OffByOne(written) == Sz(written - 1)

\* *out_len = (size_t)written
WrittenLength(written) == Sz(written)

\* the length check catching only a count above dst_len
LengthMismatch_Overrun(written, dst_len) == SzGT(Sz(written), dst_len)

\* (size_t)written != dst_len
LengthMismatch(written, dst_len) == Sz(written) # dst_len

\* the success path leaving *inout_dst_len as it was
DeflateLengthOnSuccess_Stale(entry, out_len) == entry

\* *inout_dst_len = (size_t)out_len, reached only when zrc == Z_OK
DeflateLengthOnSuccess(entry, out_len) == out_len

\* zlib given the caller's inout_dst_len itself instead of a local copy
DeflateLengthOnError_Shared(entry, out_len) == out_len

\* zrc != Z_OK: return before *inout_dst_len is assigned; zlib was given the
\* address of the local out_len, never the caller's
DeflateLengthOnError(entry, out_len) == entry

wax_lz4_compress(src, src_len, dst, dst_cap, out_len) ==
    IF NullArgument(src, dst, out_len)
    THEN {Result(-1, dst.buf, out_len.val, NoLib)}
    ELSE IF FastSizeLimitExceeded(src_len, dst_cap)
    THEN {Result(-2, dst.buf, out_len.val, NoLib)}
    ELSE
    LET bound == LZ4_compressBound(src_len.lo)
    IN  IF BoundFailed(bound)
        THEN {Result(-3, dst.buf, out_len.val,
                     Lib(<< "LZ4_compressBound" >>, bound, Sz(0), Sz(0)))}
        ELSE IF BoundExceedsCapacity(bound, dst_cap)
        THEN {Result(-4, dst.buf, out_len.val,
                     Lib(<< "LZ4_compressBound" >>, bound, Sz(0), Sz(0)))}
        ELSE
        {LET written == o.ret
             lib == Lib(<< "LZ4_compressBound", "LZ4_compress_default" >>,
                        written, dst_cap, Sz(0))
         IN  IF CompressFailed(written)
             THEN Result(-5, Store(dst.buf, o.bytes), out_len.val, lib)
             ELSE Result(0, Store(dst.buf, o.bytes), WrittenLength(written), lib)
           : o \in LZ4_compress_default(src, src_len.lo, dst_cap.lo)}

wax_lz4_decompress(src, src_len, dst, dst_len) ==
    IF NullBuffer(src, dst)
    THEN {Result(-1, dst.buf, Sz(0), NoLib)}
    ELSE IF FastSizeLimitExceeded(src_len, dst_len)
    THEN {Result(-2, dst.buf, Sz(0), NoLib)}
    ELSE
    {LET written == o.ret
         lib == Lib(<< "LZ4_decompress_safe" >>, written, dst_len, Sz(0))
     IN  IF written < 0
         THEN Result(-3, Store(dst.buf, o.bytes), Sz(0), lib)
         ELSE IF LengthMismatch(written, dst_len)
         THEN Result(-4, Store(dst.buf, o.bytes), Sz(0), lib)
         ELSE Result(0, Store(dst.buf, o.bytes), Sz(0), lib)
       : o \in LZ4_decompress_safe(src, src_len.lo, dst_len.lo)}

wax_deflate_compress(src, src_len, dst, inout_dst_len) ==
    IF NullArgument(src, dst, inout_dst_len)
    THEN {Result(-1, dst.buf, inout_dst_len.val, NoLib)}
    ELSE IF DeflateSizeLimitExceeded(src_len, inout_dst_len.val)
    THEN {Result(-2, dst.buf, inout_dst_len.val, NoLib)}
    ELSE
    {LET zrc == o.ret
         out_len == o.destLen
         lib == Lib(<< "compress2" >>, zrc, inout_dst_len.val, out_len)
     IN  IF zrc # Z_OK
         THEN Result(-3, Store(dst.buf, o.bytes),
                     DeflateLengthOnError(inout_dst_len.val, out_len), lib)
         ELSE Result(0, Store(dst.buf, o.bytes),
                     DeflateLengthOnSuccess(inout_dst_len.val, out_len), lib)
       : o \in compress2(inout_dst_len.val, src, src_len)}

wax_deflate_decompress(src, src_len, dst, inout_dst_len) ==
    IF NullArgument(src, dst, inout_dst_len)
    THEN {Result(-1, dst.buf, inout_dst_len.val, NoLib)}
    ELSE IF DeflateSizeLimitExceeded(src_len, inout_dst_len.val)
    THEN {Result(-2, dst.buf, inout_dst_len.val, NoLib)}
    ELSE
    {LET zrc == o.ret
         out_len == o.destLen
         lib == Lib(<< "uncompress" >>, zrc, inout_dst_len.val, out_len)
     IN  IF zrc # Z_OK
         THEN Result(-3, Store(dst.buf, o.bytes),
                     DeflateLengthOnError(inout_dst_len.val, out_len), lib)
         ELSE Result(0, Store(dst.buf, o.bytes),
                     DeflateLengthOnSuccess(inout_dst_len.val, out_len), lib)
       : o \in uncompress(inout_dst_len.val, src, src_len)}

\* ------------------------------------------------------------------------
\* Callers
\* ------------------------------------------------------------------------

\* byte values of the tracked inputs: 8-bit and 9-bit fixed Huffman codes,
\* and 0, which is also the LZ4 token of the empty block
Bytes == {0, 7, 200}

RECURSIVE SeqsUpTo(_)
SeqsUpTo(n) ==
    IF n = 0 THEN {<< >>}
    ELSE LET shorter == SeqsUpTo(n - 1)
         IN  shorter \cup {Append(t, b) : t \in {u \in shorter : Len(u) = n - 1},
                                          b \in Bytes}

\* the inputs handed to the compressors
Inputs == SeqsUpTo(MaxLen)

\* lengths around the limits of the two codec families:
\* LZ4_MAX_INPUT_SIZE, +1, 2^31-1, 2^31, 2^32-1, 2^32
LargeSizes ==
    {Sz(LZ4_MAX_INPUT_SIZE), Sz(LZ4_MAX_INPUT_SIZE + 1), SZ_INT32_MAX,
     [hi |-> 1, lo |-> 0], SZ_UINT32_MAX, [hi |-> 2, lo |-> 0]}

\* (pointer, length) pairs a caller may pass as input without lying about
\* the memory behind the pointer
SrcArgs(datas) ==
    {<< NullPtr, n >> : n \in {Sz(0), Sz(1)} \cup LargeSizes}
      \cup {<< DataPtr(b), Sz(Len(b)) >> : b \in datas}
      \cup {<< BulkPtr, n >> : n \in LargeSizes}

\* LZ4 blocks that did not come from wax_lz4_compress: empty input, the empty
\* block, a token with a match nibble, truncated literals, well-formed
\* literal runs, a run followed by a match, an extended literal length
Lz4Streams ==
    {<< >>, << 0 >>, << 5 >>, << 16 >>, << 16, 7 >>, << 32, 7, 200 >>,
     << 16, 7, 1, 0 >>, << 240, 1 >>}

\* zlib streams that did not come from wax_deflate_compress: truncated
\* headers, a bad header check, the empty stream with and without trailing
\* bytes, a wrong adler32, a truncated block, a stored block
ZStreams ==
    {<< >>, << 120 >>, << 120, 156 >>, << 120, 157, 3, 0, 0, 0, 0, 1 >>,
     << 120, 156, 3, 0, 0, 0, 0, 1 >>, << 120, 156, 3, 0, 0, 0, 0, 1, 5 >>,
     << 120, 156, 99, 7, 0, 0, 8, 0, 9 >>, << 120, 156, 99, 7, 0 >>,
     << 120, 1, 1, 1, 0, 254, 255, 7, 0, 8, 0, 8 >>}

FastCaps == {Sz(k) : k \in 0..(LZ4_compressBound(MaxLen) + 1)} \cup LargeSizes

ExpectedLens == {Sz(k) : k \in 0..(MaxLen + 1)} \cup LargeSizes

\* zlib's compressBound(sourceLen) for lengths below 4096
ZCompressBound(n) == n + 13

DeflateCaps == {Sz(k) : k \in 0..ZCompressBound(MaxLen)} \cup LargeSizes

DstPtr(isNull, cap) ==
    [buf |-> IF isNull THEN << >> ELSE FreshBuf(cap), null |-> isNull]

NullLen == [null |-> TRUE, val |-> Sz(0)]
LenPtr(v) == [null |-> FALSE, val |-> v]

\* what the caller keeps of its last successful compression of tracked
\* bytes: the input and the valid bytes of the output
NoPrev == [codec |-> "none", input |-> << >>, output |-> << >>]

Compressed(codec, src, r) ==
    IF r.rc = 0 /\ src.kind = "data"
    THEN [codec |-> codec, input |-> src.data, output |-> Take(r.dst, r.len.lo)]
    ELSE NoPrev

VARIABLES op, args, out, cell, rc, lib, prev

vars == << op, args, out, cell, rc, lib, prev >>

Args(s, n, d, c, l) ==
    [cap |-> c, src |-> s, dst |-> d, len |-> l, src_len |-> n]

Init ==
    /\ op = "none"
    /\ args = Args(NullPtr, Sz(0), DstPtr(TRUE, Sz(0)), Sz(0), NullLen)
    /\ out = << >>
    /\ cell = Sz(0)
    /\ rc = 0
    /\ lib = NoLib
    /\ prev = NoPrev

\* The shims keep nothing between calls, so a behaviour is one caller's
\* session: a call on buffers it has just set up, then any number of
\* decompressions of what a successful compression left in its buffer.
Fresh == op = "none"

Returned(name, a, r, p) ==
    /\ op' = name
    /\ args' = a
    /\ out' = r.dst
    /\ cell' = r.len
    /\ rc' = r.rc
    /\ lib' = r.lib
    /\ prev' = p

CallLz4Compress ==
    /\ Fresh
    /\ \E sa \in SrcArgs(Inputs), cap \in FastCaps, dnull \in BOOLEAN,
       l \in {NullLen, LenPtr(Sz(0)), LenPtr(Sz(77))} :
      LET d == DstPtr(dnull, cap)
      IN  \E r \in wax_lz4_compress(sa[1], sa[2], d, cap, l) :
            Returned("wax_lz4_compress", Args(sa[1], sa[2], d, cap, l), r,
                     Compressed("lz4", sa[1], r))

\* the input is a stream of the caller's own, or the bytes the preceding
\* wax_lz4_compress reported as written
CallLz4Decompress ==
    \E chained \in {c \in BOOLEAN : IF c THEN prev.codec = "lz4" ELSE Fresh} :
    \E sa \in SrcArgs(IF chained THEN {prev.output} ELSE Lz4Streams),
       dst_len \in ExpectedLens, dnull \in BOOLEAN :
      LET d == DstPtr(dnull, dst_len)
      IN  \E r \in wax_lz4_decompress(sa[1], sa[2], d, dst_len) :
            Returned("wax_lz4_decompress",
                     Args(sa[1], sa[2], d, dst_len, NullLen), r,
                     IF chained /\ sa[1].kind = "data" THEN prev ELSE NoPrev)

CallDeflateCompress ==
    /\ Fresh
    /\ \E sa \in SrcArgs(Inputs), cap \in DeflateCaps, dnull \in BOOLEAN,
       lnull \in BOOLEAN :
      LET d == DstPtr(dnull, cap)
          l == IF lnull THEN NullLen ELSE LenPtr(cap)
      IN  \E r \in wax_deflate_compress(sa[1], sa[2], d, l) :
            Returned("wax_deflate_compress", Args(sa[1], sa[2], d, cap, l),
                     r, Compressed("deflate", sa[1], r))

\* the input is a stream of the caller's own, or the bytes the preceding
\* wax_deflate_compress reported in *inout_dst_len
CallDeflateDecompress ==
    \E chained \in {c \in BOOLEAN : IF c THEN prev.codec = "deflate" ELSE Fresh} :
    \E sa \in SrcArgs(IF chained THEN {prev.output} ELSE ZStreams),
       cap \in ExpectedLens, dnull \in BOOLEAN, lnull \in BOOLEAN :
      LET d == DstPtr(dnull, cap)
          l == IF lnull THEN NullLen ELSE LenPtr(cap)
      IN  \E r \in wax_deflate_decompress(sa[1], sa[2], d, l) :
            Returned("wax_deflate_decompress",
                     Args(sa[1], sa[2], d, cap, l), r,
                     IF chained /\ sa[1].kind = "data" THEN prev ELSE NoPrev)

Next ==
    \/ CallLz4Compress
    \/ CallLz4Decompress
    \/ CallDeflateCompress
    \/ CallDeflateDecompress

Spec == Init /\ [][Next]_vars

\* ------------------------------------------------------------------------
\* Properties
\* ------------------------------------------------------------------------

Invoked(fn) == \E i \in 1..Len(lib.calls) : lib.calls[i] = fn

FastOp == op \in {"wax_lz4_compress", "wax_lz4_decompress"}

DeflateOp == op \in {"wax_deflate_compress", "wax_deflate_decompress"}

\* every pointer the called function takes is non-null
PointersPresent ==
    /\ op # "none"
    /\ args.src.kind # "null"
    /\ ~args.dst.null
    /\ (op # "wax_lz4_decompress" => ~args.len.null)

\* C1: a fast-codec call with all pointers present whose input length or
\* output capacity / expected length exceeds 2^31-1 returns -2
\* (SizeLimitExceeded) and calls nothing in liblz4, neither the transform
\* nor the bound computation.
C1_FastSizeLimit ==
    (FastOp /\ PointersPresent
       /\ (SzGT(args.src_len, SZ_INT32_MAX) \/ SzGT(args.cap, SZ_INT32_MAX)))
    => (rc = -2 /\ lib.calls = << >>)

\* wax_lz4_decompress was given a length of exactly 2^31 and refused it
C1_Witness ==
    /\ op = "wax_lz4_decompress"
    /\ PointersPresent
    /\ args.src_len = [hi |-> 1, lo |-> 0]
    /\ SzLE(args.cap, SZ_INT32_MAX)
    /\ rc = -2

\* C2: wax_lz4_compress with pointers present and sizes in range, given a
\* capacity below the worst-case bound of the input length, returns -4
\* (OutputTooSmall), does not call the compression transform, leaves every
\* byte of the output buffer as it was and does not write *out_len.
C2_CapacityRejection ==
    (op = "wax_lz4_compress" /\ PointersPresent
       /\ SzLE(args.src_len, SZ_INT32_MAX) /\ SzLE(args.cap, SZ_INT32_MAX)
       /\ args.cap.lo < LZ4_compressBound(args.src_len.lo))
    => /\ rc = -4
       /\ ~Invoked("LZ4_compress_default")
       /\ out = args.dst.buf
       /\ cell = args.len.val

\* the capacity was exactly one byte short of the bound of a non-empty input
C2_Witness ==
    /\ op = "wax_lz4_compress"
    /\ PointersPresent
    /\ args.src.kind = "data"
    /\ args.src_len.lo > 0
    /\ args.cap.lo + 1 = LZ4_compressBound(args.src_len.lo)
    /\ rc = -4

\* C3: wax_lz4_decompress returns 0 only when LZ4_decompress_safe reported
\* exactly dst_len bytes; a negative count gives -3 (DecompressionFailed),
\* any other count gives -4 (LengthMismatch).  So the block produced by
\* wax_lz4_compress for b, decompressed with dst_len = |b| - 1, gives -3
\* or -4.
C3_ExactLength ==
    op = "wax_lz4_decompress" =>
      /\ rc = 0 => (Invoked("LZ4_decompress_safe") /\ Sz(lib.ret) = args.cap)
      /\ (Invoked("LZ4_decompress_safe") /\ lib.ret < 0) => rc = -3
      /\ (Invoked("LZ4_decompress_safe") /\ lib.ret >= 0
            /\ Sz(lib.ret) # args.cap) => rc = -4
      /\ (prev.codec = "lz4" /\ PointersPresent /\ Len(prev.input) > 0
            /\ args.cap = Sz(Len(prev.input) - 1)) => rc \in {-3, -4}

\* a block from wax_lz4_compress was decompressed with dst_len one short
C3_Witness ==
    /\ op = "wax_lz4_decompress"
    /\ prev.codec = "lz4"
    /\ PointersPresent
    /\ Len(prev.input) = MaxLen
    /\ args.cap = Sz(Len(prev.input) - 1)
    /\ rc \in {-3, -4}

\* C4: the deflate shims hand zlib the value of *inout_dst_len as the
\* capacity; after a return of 0 *inout_dst_len is the number of bytes zlib
\* wrote, at most the capacity on entry, and the buffer is untouched beyond
\* them; the bytes wax_deflate_compress reported, decompressed into a
\* buffer that has room for the original, give the original back.
C4_InOutLength ==
    DeflateOp =>
      /\ lib.calls # << >> => lib.cap = args.len.val
      /\ rc = 0 =>
           /\ cell = lib.destLen
           /\ SzLE(cell, args.len.val)
           /\ \A i \in 1..Len(out) : SzGT(Sz(i), cell) => out[i] = args.dst.buf[i]
      /\ (op = "wax_deflate_decompress" /\ prev.codec = "deflate"
            /\ PointersPresent /\ SzLE(args.len.val, SZ_UINT32_MAX)
            /\ SzLE(Sz(Len(prev.input)), args.len.val))
         => (rc = 0 /\ cell = Sz(Len(prev.input))
               /\ Take(out, cell.lo) = prev.input)

\* wax_deflate_compress succeeded with room to spare: the length was
\* overwritten with something smaller than the declared capacity
C4_Witness ==
    /\ op = "wax_deflate_compress"
    /\ rc = 0
    /\ args.src.kind = "data"
    /\ SzGT(args.len.val, cell)
    /\ cell.lo > 0

C6_NullInputAllowedWhenEmpty ==
    (op # "none" /\ args.src.kind = "null" /\ args.src_len = Sz(0)
       /\ ~args.dst.null /\ (op # "wax_lz4_decompress" => ~args.len.null))
    => rc # -1

C8_DeflateUnsignedLimit ==
    (DeflateOp /\ PointersPresent) =>
      /\ rc = -2 <=> (SzGT(args.src_len, SZ_UINT32_MAX)
                        \/ SzGT(args.len.val, SZ_UINT32_MAX))
      /\ (SzLE(args.src_len, SZ_UINT32_MAX)
            /\ SzLE(args.len.val, SZ_UINT32_MAX)
            /\ (SzGT(args.src_len, SZ_INT32_MAX)
                  \/ SzGT(args.len.val, SZ_INT32_MAX)))
         => (lib.calls # << >> /\ lib.cap = args.len.val)

\* zlib was called with a capacity of 2^32-1
C8_Witness ==
    /\ op = "wax_deflate_compress"
    /\ args.len.val = SZ_UINT32_MAX
    /\ lib.calls = << "compress2" >>
    /\ lib.cap = SZ_UINT32_MAX

\* C9: wax_lz4_compress returns the code of the first failing check, in
\* the order null pointer (-1), size limit (-2), bound <= 0 (-3), capacity
\* below bound (-4), transform count <= 0 (-5), else 0; the transform runs
\* only after the four earlier checks passed; 0 implies *out_len is the
\* transform's count and 1 <= *out_len <= dst_cap.
C9_FirstFailingCheck ==
    op = "wax_lz4_compress" =>
      LET null == args.src.kind = "null" \/ args.dst.null \/ args.len.null
          over == SzGT(args.src_len, SZ_INT32_MAX)
                    \/ SzGT(args.cap, SZ_INT32_MAX)
          bound == LZ4_compressBound(args.src_len.lo)
          early == IF null THEN -1
                   ELSE IF over THEN -2
                   ELSE IF bound <= 0 THEN -3
                   ELSE IF args.cap.lo < bound THEN -4
                   ELSE 0
      IN  /\ early # 0 => (rc = early /\ ~Invoked("LZ4_compress_default"))
          /\ early = 0 =>
               /\ Invoked("LZ4_compress_default")
               /\ rc = IF lib.ret <= 0 THEN -5 ELSE 0
          /\ rc = 0 =>
               /\ cell = Sz(lib.ret)
               /\ 1 <= cell.lo
               /\ SzLE(cell, args.cap)

\* a null output pointer and an oversize length at once: the null pointer
\* is reported
C9_Witness ==
    /\ op = "wax_lz4_compress"
    /\ args.dst.null
    /\ SzGT(args.src_len, SZ_INT32_MAX)
    /\ rc = -1

\* C10: when wax_lz4_compress, wax_deflate_compress or
\* wax_deflate_decompress returns non-zero, the size_t behind the length
\* pointer holds what it held on entry, also when the library was called
\* and failed.
C10_LengthKeptOnError ==
    (op \in {"wax_lz4_compress", "wax_deflate_compress",
             "wax_deflate_decompress"}
       /\ ~args.len.null /\ rc # 0)
    => cell = args.len.val

\* uncompress failed after producing output: zlib's own length differs from
\* the caller's, which is still the declared capacity
C10_Witness ==
    /\ op = "wax_deflate_decompress"
    /\ rc = -3
    /\ lib.calls = << "uncompress" >>
    /\ lib.destLen # args.len.val
    /\ cell = args.len.val

====
